---- MODULE Spec2Model ----
(***************************************************************************)
(* Model of `pkg-cmd init` (src/unnamed/part_001, the action() wizard):    *)
(* probe the working directory, ask the operator a fixed series of         *)
(* questions, build the ordered task list and run it with Listr.           *)
(*                                                                         *)
(* Conventions.                                                            *)
(*  - A JavaScript string is a sequence of one-character strings, so that  *)
(*    startsWith / replace / RegExp can be computed character by character.*)
(*  - A value that may be null or undefined is a sequence of length 0      *)
(*    (Null) or 1 (Some(v)).                                               *)
(*  - The text of package.json is kept up to its JSON meaning: the empty   *)
(*    text, a non-empty text that JSON.parse rejects, or a text that       *)
(*    JSON.parse accepts together with the value it denotes.               *)
(***************************************************************************)
EXTENDS Naturals, Sequences, FiniteSets, TLC

\* ---------------------------------------------------------------- options
Null == <<>>
Some(v) == <<v>>
IsSome(o) == o # Null
Val(o) == o[1]

\* JavaScript truthiness of a string | null | undefined value.
Truthy(o) == IsSome(o) /\ Val(o) # <<>>

\* a || b on string | undefined values.
OrElse(a, b) == IF Truthy(a) THEN a ELSE b

\* ---------------------------------------------------------------- bounds
\* How many names of each candidate-name list may exist in the probed
\* directory (always the first ones of the list).
MaxCandidates == 2

\* The lines of a go.mod text are at most this many.
MaxLines == 3

\* ---------------------------------------------------------------- texts
W_demo == <<"d", "e", "m", "o">>
W_old == <<"o", "l", "d">>
W_app == <<"a", "p", "p">>
W_desc == <<"d", "e", "s", "c">>
W_A == <<"A">>
W_B == <<"B">>
W_MIT == <<"M", "I", "T">>
W_ISC == <<"I", "S", "C">>
W_eslint == <<"e", "s", "l", "i", "n", "t">>
W_https == <<"h", "t", "t", "p", "s", ":", "/", "/", "h", "/", "r">>
W_ssh == <<"g", "i", "t", "@", "h", ":", "r">>
T_MITLicense == <<"M", "I", "T", " ", "L", "i", "c", "e", "n", "s", "e">>
T_mit == <<"m", "i", "t">>
T_Smits == <<"S", "m", "i", "t", "s">>
T_theISC == <<"t", "h", "e", "\n", "I", "S", "C", "\n">>
T_x == <<"x">>
T_gomod == <<"m", "o", "d", "u", "l", "e", " ", "h", "/", "r", "\n",
             "g", "o", " ", "1", "\n">>

\* ---------------------------------------------------------------- lists
readmeFileNames ==
  <<"README.md", "README.txt", "README", "Readme.md", "Readme.txt", "Readme",
    "readme.md", "readme.txt", "readme">>

licenseFileNames ==
  <<"LICENSE", "LICENSE.txt", "LICENSE.md", "License", "License.txt",
    "License.md", "license", "license.txt", "license.md">>

codeOfConductFileNames ==
  <<"CODE_OF_CONDUCT.md", "CODE_OF_CONDUCT.txt", "CODE_OF_CONDUCT",
    "Code_Of_Conduct.md", "Code_Of_Conduct.txt", "Code_Of_Conduct",
    "code_of_conduct.md", "code_of_conduct.txt", "code_of_conduct">>

\* Object.keys(spdxLicenseMap), cut to two identifiers made of letters only.
spdxLicenseList == <<W_MIT, W_ISC>>

Range(s) == {s[i] : i \in 1..Len(s)}

\* basename(process.cwd()): the directory the model runs in is called "app".
currentFolderName == W_app

\* ---------------------------------------------------------------- strings
Upper == <<"A", "B", "C", "D", "E", "F", "G", "H", "I", "J", "K", "L", "M",
           "N", "O", "P", "Q", "R", "S", "T", "U", "V", "W", "X", "Y", "Z">>
LowerOf == <<"a", "b", "c", "d", "e", "f", "g", "h", "i", "j", "k", "l", "m",
             "n", "o", "p", "q", "r", "s", "t", "u", "v", "w", "x", "y", "z">>

\* String.prototype.toLowerCase on one character.
ToLower(c) ==
  IF \E i \in 1..Len(Upper) : Upper[i] = c
    THEN LowerOf[CHOOSE i \in 1..Len(Upper) : Upper[i] = c]
    ELSE c

\* s.startsWith(p)
StartsWith(s, p) ==
  /\ Len(p) <= Len(s)
  /\ \A i \in 1..Len(p) : s[i] = p[i]

\* The text of s from position i (1-based) on.
From(s, i) == [k \in 1..(Len(s) - i + 1) |-> s[k + i - 1]]

\* s.split(sep) for a one-character separator.
RECURSIVE SplitAt(_, _, _, _)
SplitAt(s, sep, i, cur) ==
  IF i > Len(s) THEN <<cur>>
  ELSE IF s[i] = sep THEN <<cur>> \o SplitAt(s, sep, i + 1, <<>>)
  ELSE SplitAt(s, sep, i + 1, Append(cur, s[i]))

Split(s, sep) == SplitAt(s, sep, 1, <<>>)

\* ---------------------------------------------------------------- go.mod
W_modulePrefix == <<"m", "o", "d", "u", "l", "e", " ">>
W_goPrefix == <<"g", "o", " ">>

\* line.replace(prefix, "") for a line that starts with prefix: the first
\* occurrence is the prefix itself.
DropPrefix(line, prefix) == From(line, Len(prefix) + 1)

parseGoModLine(acc, line) ==
  IF StartsWith(line, W_modulePrefix)
    THEN [acc EXCEPT !.module = DropPrefix(line, W_modulePrefix)]
  ELSE IF StartsWith(line, W_goPrefix)
    THEN [acc EXCEPT !.go = DropPrefix(line, W_goPrefix)]
  ELSE acc

RECURSIVE Reduce(_, _, _)
Reduce(lines, i, acc) ==
  IF i > Len(lines) THEN acc
  ELSE Reduce(lines, i + 1, parseGoModLine(acc, lines[i]))

parseGoMod(goModText) ==
  Reduce(Split(goModText, "\n"), 1, [module |-> <<>>, go |-> <<>>])

\* ---------------------------------------------------------------- JSON
\* The object a manifest text denotes: the four metadata fields, the
\* repository and the scripts, each undefined (Null) or set.
NoScripts ==
  [lint |-> Null, test |-> Null, format |-> Null, release |-> Null, prepare |-> Null]
NoRepository == [type |-> Null, url |-> Null]
EmptyObject ==
  [name |-> Null, description |-> Null, author |-> Null, license |-> Null,
   repository |-> Null, scripts |-> Null]

JObject(o) == [t |-> "object", n |-> 0, o |-> o]
JNumber(n) == [t |-> "number", n |-> n, o |-> EmptyObject]
JNull == [t |-> "null", n |-> 0, o |-> EmptyObject]

EmptyText == [kind |-> "empty", value |-> JNull]
GarbageText == [kind |-> "garbage", value |-> JNull]
JsonText(v) == [kind |-> "json", value |-> v]

\* Truthiness of the string read from package.json: only "" is falsy.
TextTruthy(file) == IsSome(file) /\ Val(file).kind # "empty"

\* JSON.parse(text): Null stands for the SyntaxError it throws.
JSONparse(text) == IF text.kind = "json" THEN Some(text.value) ELSE Null

\* Truthiness of a parsed value.
JsTruthy(v) == v.t = "object" \/ (v.t = "number" /\ v.n # 0)

\* v.field for a parsed value that is not null: a primitive has no such
\* property.
Prop(v, field) == IF v.t = "object" THEN v.o[field] ELSE Null

\* JSON.stringify({ name }, null, 2)
JSONstringifyName(name) == JsonText(JObject([EmptyObject EXCEPT !.name = Some(name)]))

\* ---------------------------------------------------------------- license
\* One pattern character against one text character under the "i" flag.
CharMatch(p, c) == ToLower(p) = ToLower(c)

\* text contains word at position i, compared case-insensitively.
MatchesAt(text, word, i) ==
  /\ i + Len(word) - 1 <= Len(text)
  /\ \A k \in 1..Len(word) : CharMatch(word[k], text[i + k - 1])

\* new RegExp(`\(\s|^)${license}\(\s|$)`, "i").test(content).  The pattern is
\* a template literal, not a regular-expression literal: in its cooked text
\* "\(" is "(" and "\s" is "s", so that the expression built is
\* /(s|^)LICENSE(s|$)/i: the identifier preceded by the letter s or the start
\* of the text, and followed by the letter s or the end of the text.
LicenseRegExpTest(license, content) ==
  \E i \in 1..(Len(content) + 1) :
    /\ MatchesAt(content, license, i)
    /\ \/ i = 1
       \/ i > 1 /\ ToLower(content[i - 1]) = "s"
    /\ LET j == i + Len(license)
       IN \/ j = Len(content) + 1
          \/ j <= Len(content) /\ ToLower(content[j]) = "s"

\* ---------------------------------------------------------------- inquirer
\* The answer of an "input" prompt: what the operator typed, or the prompt's
\* default (the empty string when there is none) when nothing was typed.
InputAnswer(typed, default) ==
  IF typed # <<>> THEN typed
  ELSE IF IsSome(default) THEN Val(default) ELSE <<>>

\* What the operator may type at the input prompts.
TypedNames == {<<>>, W_demo}
TypedDescriptions == {<<>>, W_desc}
TypedAuthors == {<<>>, W_A}
TypedRemotes == {<<>>, W_https, W_ssh}

\* ---------------------------------------------------------------- directory
Manifests ==
  { EmptyObject,
    [EmptyObject EXCEPT
       !.name = Some(W_demo), !.description = Some(W_old), !.author = Some(W_B),
       !.license = Some(W_MIT),
       !.scripts = Some([NoScripts EXCEPT !.lint = Some(W_eslint), !.test = Some(<<>>)])],
    [EmptyObject EXCEPT
       !.name = Some(W_old), !.description = Some(<<>>), !.license = Some(W_ISC),
       !.scripts = Some([NoScripts EXCEPT
                           !.lint = Some(W_eslint), !.test = Some(W_eslint),
                           !.format = Some(W_eslint), !.release = Some(W_eslint)])] }

PackageJsonFiles ==
  {Null, Some(EmptyText), Some(GarbageText), Some(JsonText(JNull)),
   Some(JsonText(JNumber(0)))} \cup {Some(JsonText(JObject(m))) : m \in Manifests}

GoModFiles == {Null, Some(<<>>), Some(T_gomod)}

\* parseGitConfig(): null, or the parsed configuration, of which only
\* remote.origin.url is read.
GitConfigs == {Null, Some([origin |-> Null]), Some([origin |-> Some(W_https)])}

LicenseTexts == {T_MITLicense, T_mit, T_Smits, T_theISC}

\* The first MaxCandidates names of a candidate list.
FirstNames(names) == {names[i] : i \in 1..MaxCandidates}

\* Every way the first names of a list exist, with the given contents.
CandidateFiles(names, texts) ==
  [FirstNames(names) -> {Null, Some(<<>>)} \cup {Some(t) : t \in texts}]

NoCandidates(names) == [p \in FirstNames(names) |-> Null]

Directory(pkg, mod, git, lic, coc, readme) ==
  [pkg |-> pkg, mod |-> mod, git |-> git, lic |-> lic, coc |-> coc, readme |-> readme]

GoProject(lic, coc, readme) ==
  Directory(Null, Some(T_gomod), Some([origin |-> Some(W_https)]), lic, coc, readme)

\* The probed directories: every manifest, module descriptor and git
\* configuration without candidate files; and a go module with every set of
\* license, of code-of-conduct and of readme candidates.
ProjectDirectories ==
  { Directory(pkg, mod, git, NoCandidates(licenseFileNames),
              NoCandidates(codeOfConductFileNames), NoCandidates(readmeFileNames)) :
      pkg \in PackageJsonFiles, mod \in GoModFiles, git \in GitConfigs }

CandidateDirectories ==
  { GoProject(lic, NoCandidates(codeOfConductFileNames), NoCandidates(readmeFileNames)) :
      lic \in CandidateFiles(licenseFileNames, LicenseTexts) }
  \cup
  { GoProject(NoCandidates(licenseFileNames), coc, NoCandidates(readmeFileNames)) :
      coc \in CandidateFiles(codeOfConductFileNames, {T_x}) }
  \cup
  { GoProject(NoCandidates(licenseFileNames), NoCandidates(codeOfConductFileNames), readme) :
      readme \in CandidateFiles(readmeFileNames, {T_x}) }

\* The runs: a directory and the command's options.  The candidate files
\* are varied under --reinitialize only.
Runs ==
  (ProjectDirectories \X [reinitialize : BOOLEAN])
    \cup (CandidateDirectories \X {[reinitialize |-> TRUE]})

OutputPaths ==
  {".gitignore", "LICENSE", "CODE_OF_CONDUCT.md", ".eslintrc.js", ".prettierrc.js",
   "jest.config.js", ".np-config.js", ".lintstagedrc.js", "README.md", "go.mod",
   "package.json", ".git/config", ".husky/pre-commit"}

Paths ==
  OutputPaths \cup Range(licenseFileNames) \cup Range(codeOfConductFileNames)
    \cup Range(readmeFileNames)

\* The files of a directory, by path.
DiskOf(d) ==
  [p \in Paths |->
     IF p = "package.json" THEN d.pkg
     ELSE IF p = "go.mod" THEN d.mod
     ELSE IF p = ".git/config" THEN d.git
     ELSE IF p \in DOMAIN d.lic THEN d.lic[p]
     ELSE IF p \in DOMAIN d.coc THEN d.coc[p]
     ELSE IF p \in DOMAIN d.readme THEN d.readme[p]
     ELSE Null]

\* ---------------------------------------------------------------- state
VARIABLES
  options,              \* the command's options: [reinitialize]
  disk,                 \* the working directory: path -> file content or Null
  pc,                   \* where action() stands
  packageJson,          \* maybeReadFile("package.json")
  goMod,                \* maybeReadFile("go.mod")
  readmeFiles,          \* maybeReadFiles(readmeFileNames)
  licenseFiles,         \* maybeReadFiles(licenseFileNames)
  codeOfConductFiles,   \* maybeReadFiles(codeOfConductFileNames)
  gitConfig,            \* parseGitConfig()
  freshInitialization,
  currentValues,
  newValues,
  parsedPackageJson,    \* Null until assigned
  tasks,                \* the Listr task list: groups of steps
  next,                 \* the group and step Listr runs next
  asked,                \* the questions prompted so far and their answers, in order
  effects,              \* writes, unlinks, commands and fetches so far, in order
  started,              \* the steps started so far, in order, and how each ended
  err,                  \* the error thrown inside the try block, if any
  exitCode,             \* the status the process ended with, if it ended
  console               \* the lines printed with console.log and console.error

vars ==
  <<options, disk, pc, packageJson, goMod, readmeFiles, licenseFiles,
    codeOfConductFiles, gitConfig, freshInitialization, currentValues, newValues,
    parsedPackageJson, tasks, next, asked, effects, started, err, exitCode, console>>

probeVars ==
  <<packageJson, goMod, readmeFiles, licenseFiles, codeOfConductFiles, gitConfig>>
runVars == <<tasks, next, effects, started, disk>>
endVars == <<err, exitCode, console>>

NoValues ==
  [language |-> Null, name |-> Null, description |-> Null, author |-> Null,
   license |-> Null, gitRemote |-> Null, hasGit |-> FALSE]

NoAnswers ==
  [language |-> Null, name |-> Null, description |-> Null, author |-> Null,
   license |-> Null, initializeGit |-> Null, gitRemote |-> Null,
   addPreCommitLinting |-> Null, addCodeOfConduct |-> Null, addReadme |-> Null]

InitIn(runs) ==
  /\ \E run \in runs :
       /\ disk = DiskOf(run[1])
       /\ options = run[2]
  /\ pc = "probe"
  /\ packageJson = Null
  /\ goMod = Null
  /\ readmeFiles = <<>>
  /\ licenseFiles = <<>>
  /\ codeOfConductFiles = <<>>
  /\ gitConfig = Null
  /\ freshInitialization = TRUE
  /\ currentValues = NoValues
  /\ newValues = NoAnswers
  /\ parsedPackageJson = Null
  /\ tasks = <<>>
  /\ next = [group |-> 1, step |-> 1]
  /\ asked = <<>>
  /\ effects = <<>>
  /\ started = <<>>
  /\ err = Null
  /\ exitCode = Null
  /\ console = <<>>

Init == InitIn(Runs)

\* ---------------------------------------------------------------- probing
\* maybeReadFile(path): the content, or null when the read fails.
maybeReadFile(path) == disk[path]

\* maybeReadFiles(paths): the files whose content is truthy, in the order of
\* paths; a file that is missing or empty is filtered out.
RECURSIVE ReadFrom(_, _)
ReadFrom(paths, i) ==
  IF i > Len(paths) THEN <<>>
  ELSE (IF Truthy(maybeReadFile(paths[i]))
          THEN <<[path |-> paths[i], content |-> Val(maybeReadFile(paths[i]))]>>
          ELSE <<>>) \o ReadFrom(paths, i + 1)

maybeReadFiles(paths) == ReadFrom(paths, 1)

\* throw new Error(...) inside the try block: control passes to the catch.
Throw(e) ==
  /\ err' = Some(e)
  /\ pc' = "catch"
  /\ UNCHANGED <<exitCode, console>>

\* Lines 82-115: the reads and the two value records.
Probe ==
  /\ pc = "probe"
  /\ packageJson' = maybeReadFile("package.json")
  /\ goMod' = maybeReadFile("go.mod")
  /\ readmeFiles' = maybeReadFiles(readmeFileNames)
  /\ licenseFiles' = maybeReadFiles(licenseFileNames)
  /\ codeOfConductFiles' = maybeReadFiles(codeOfConductFileNames)
  /\ gitConfig' = disk[".git/config"]
  /\ freshInitialization' = TRUE
  /\ currentValues' =
       [NoValues EXCEPT
          !.gitRemote = IF IsSome(disk[".git/config"])
                          THEN Val(disk[".git/config"]).origin ELSE Null,
          !.hasGit = IsSome(disk[".git/config"])]
  /\ newValues' = NoAnswers
  /\ pc' = "checkProjectType"
  /\ UNCHANGED <<options, parsedPackageJson, asked, runVars, endVars>>

\* Lines 117-124: package.json and go.mod together.
BothPresent == TextTruthy(packageJson) /\ Truthy(goMod)

CheckProjectType ==
  /\ pc = "checkProjectType"
  /\ IF BothPresent
       THEN Throw("ConflictingProjectType")
       ELSE pc' = "parseManifest" /\ UNCHANGED endVars
  /\ UNCHANGED <<options, probeVars, freshInitialization, currentValues, newValues,
                 parsedPackageJson, asked, runVars>>

\* Lines 126-141: the details of package.json.  Reading .name of a parsed
\* null throws a TypeError, which the same catch receives.
ParseManifest ==
  /\ pc = "parseManifest"
  /\ IF TextTruthy(packageJson)
       THEN LET parsed == JSONparse(Val(packageJson))
            IN IF parsed = Null
                 THEN /\ Throw("InvalidManifest")
                      /\ UNCHANGED <<parsedPackageJson, currentValues>>
                 ELSE /\ parsedPackageJson' = parsed
                      /\ IF Val(parsed).t = "null"
                           THEN /\ Throw("TypeError")
                                /\ currentValues' =
                                     [currentValues EXCEPT !.language = Some("node")]
                           ELSE /\ currentValues' =
                                     [currentValues EXCEPT
                                        !.language = Some("node"),
                                        !.name = Prop(Val(parsed), "name"),
                                        !.description = Prop(Val(parsed), "description"),
                                        !.author = Prop(Val(parsed), "author"),
                                        !.license = Prop(Val(parsed), "license")]
                                /\ pc' = "parseGoModule"
                                /\ UNCHANGED endVars
       ELSE /\ pc' = "parseGoModule"
            /\ UNCHANGED <<parsedPackageJson, currentValues, endVars>>
  /\ UNCHANGED <<options, probeVars, freshInitialization, newValues, asked, runVars>>

\* Lines 143-150: the details of go.mod.
ParseGoModule ==
  /\ pc = "parseGoModule"
  /\ currentValues' =
       IF Truthy(goMod)
         THEN [currentValues EXCEPT
                 !.language = Some("go"),
                 !.name = Some(parseGoMod(Val(goMod)).module)]
         ELSE currentValues
  /\ pc' = "confirm"
  /\ UNCHANGED <<options, probeVars, freshInitialization, newValues,
                 parsedPackageJson, asked, runVars, endVars>>

\* A question prompted and the operator's answer to it.
Asked(q, a) == [q |-> q, a |-> a]

\* Mutant: declining ends the process like an error does.
DeclineStatusError == 0 + 1

\* Line 168: process.exit(0)
DeclineStatus == 0

\* Lines 152-172: the reinitialize confirmation; process.exit(0) on "no".
ConfirmAsked == (TextTruthy(packageJson) \/ Truthy(goMod)) /\ ~options.reinitialize

Confirm ==
  /\ pc = "confirm"
  /\ IF ConfirmAsked
       THEN \E answer \in BOOLEAN :
              /\ asked' = Append(asked, Asked("reinitialize", answer))
              /\ IF ~answer
                   THEN /\ exitCode' = Some(DeclineStatus)
                        /\ pc' = "done"
                        /\ UNCHANGED <<freshInitialization, err, console>>
                   ELSE /\ freshInitialization' = FALSE
                        /\ pc' = "checkGoGit"
                        /\ UNCHANGED endVars
       ELSE /\ pc' = "checkGoGit"
            /\ UNCHANGED <<asked, freshInitialization, endVars>>
  /\ UNCHANGED <<options, probeVars, currentValues, newValues, parsedPackageJson,
                 runVars>>

\* Mutant: the negation of the git test is lost.
GoWithGit == Truthy(goMod) /\ gitConfig # Null

\* Lines 174-181: a go.mod without a git repository.
GoWithoutGit == Truthy(goMod) /\ gitConfig = Null

CheckGoGit ==
  /\ pc = "checkGoGit"
  /\ IF GoWithoutGit
       THEN Throw("GoRequiresGit")
       ELSE pc' = "askLanguage" /\ UNCHANGED endVars
  /\ UNCHANGED <<options, probeVars, freshInitialization, currentValues, newValues,
                 parsedPackageJson, asked, runVars>>

\* ---------------------------------------------------------------- questions
\* Truthiness of a boolean | undefined answer.
Yes(o) == IsSome(o) /\ Val(o)

\* const language = (newValues.language || currentValues.language)!
language ==
  IF IsSome(newValues.language) THEN newValues.language ELSE currentValues.language

resolverFrame == <<options, probeVars, currentValues, parsedPackageJson, runVars>>

\* Lines 198-215: the language, when neither file was found.
LanguageAsked == ~TextTruthy(packageJson) /\ ~Truthy(goMod)

AskLanguage ==
  /\ pc = "askLanguage"
  /\ IF LanguageAsked
       THEN \E choice \in {"Node", "Go"} :
              /\ asked' = Append(asked, Asked("language", choice))
              /\ newValues' =
                   [newValues EXCEPT
                      !.language = Some(IF choice = "Node" THEN "node" ELSE "go")]
       ELSE UNCHANGED <<asked, newValues>>
  /\ pc' = "askInitializeGit"
  /\ UNCHANGED <<resolverFrame, freshInitialization, endVars>>

\* Mutant: the test is made for node instead of go.
NodeNeedsGitInit(answer) ==
  freshInitialization /\ ~answer /\ newValues.language = Some("node")

\* Lines 228-232: a fresh go project whose operator declines git.
GoNeedsGitInit(answer) ==
  freshInitialization /\ ~answer /\ newValues.language = Some("go")

\* Mutant: git init is run as soon as the operator answers yes.
AskInitializeGitEagerly ==
  /\ pc = "askInitializeGit"
  /\ IF ~currentValues.hasGit
       THEN \E answer \in BOOLEAN :
              /\ asked' = Append(asked, Asked("initializeGit", answer))
              /\ newValues' = [newValues EXCEPT !.initializeGit = Some(answer)]
              /\ effects' = IF answer THEN Append(effects, [kind |-> "exec", cmd |-> "git init",
                                                            key |-> "", value |-> <<>>])
                                      ELSE effects
              /\ disk' = IF answer THEN [disk EXCEPT ![".git/config"] = Some([origin |-> Null])]
                                   ELSE disk
              /\ IF GoNeedsGitInit(answer)
                   THEN Throw("GoRequiresGitInit")
                   ELSE pc' = "askGitRemote" /\ UNCHANGED endVars
       ELSE /\ pc' = "askGitRemote"
            /\ UNCHANGED <<asked, newValues, endVars, effects, disk>>
  /\ UNCHANGED <<options, probeVars, currentValues, parsedPackageJson, tasks, next,
                 started, freshInitialization>>

\* Lines 217-235: whether to initialize a git repository.
AskInitializeGit ==
  /\ pc = "askInitializeGit"
  /\ IF ~currentValues.hasGit
       THEN \E answer \in BOOLEAN :
              /\ asked' = Append(asked, Asked("initializeGit", answer))
              /\ newValues' = [newValues EXCEPT !.initializeGit = Some(answer)]
              /\ IF GoNeedsGitInit(answer)
                   THEN Throw("GoRequiresGitInit")
                   ELSE pc' = "askGitRemote" /\ UNCHANGED endVars
       ELSE /\ pc' = "askGitRemote"
            /\ UNCHANGED <<asked, newValues, endVars>>
  /\ UNCHANGED <<resolverFrame, freshInitialization>>

\* Lines 237-247: the remote URL; the prompt has no default.
RemoteAsked == Yes(newValues.initializeGit) \/ ~Truthy(currentValues.gitRemote)

AskGitRemote ==
  /\ pc = "askGitRemote"
  /\ IF RemoteAsked
       THEN \E typed \in TypedRemotes :
              /\ asked' = Append(asked, Asked("gitRemote", typed))
              /\ newValues' =
                   [newValues EXCEPT !.gitRemote = Some(InputAnswer(typed, Null))]
       ELSE UNCHANGED <<asked, newValues>>
  /\ pc' = "askPreCommitLinting"
  /\ UNCHANGED <<resolverFrame, freshInitialization, endVars>>

\* Lines 249-261: pre-commit linting.
\* Mutant: the question is asked of every node project.
PreCommitAskedOfNode == language = Some("node")

PreCommitAsked == Yes(newValues.initializeGit) /\ language = Some("node")

AskPreCommitLinting ==
  /\ pc = "askPreCommitLinting"
  /\ IF PreCommitAsked
       THEN \E answer \in BOOLEAN :
              /\ asked' = Append(asked, Asked("addPreCommitLinting", answer))
              /\ newValues' = [newValues EXCEPT !.addPreCommitLinting = Some(answer)]
       ELSE UNCHANGED <<asked, newValues>>
  /\ pc' = "askName"
  /\ UNCHANGED <<resolverFrame, freshInitialization, endVars>>

\* Lines 263-274: the name; default: the probed name or the folder's name.
AskName ==
  /\ pc = "askName"
  /\ \E typed \in TypedNames :
       /\ newValues' =
            [newValues EXCEPT
               !.name = Some(InputAnswer(typed,
                                         OrElse(currentValues.name, Some(currentFolderName))))]
       /\ asked' = Append(asked, Asked("name", typed))
  /\ pc' = "askDescription"
  /\ UNCHANGED <<resolverFrame, freshInitialization, endVars>>

\* Lines 276-287: the description; default: the probed description.
AskDescription ==
  /\ pc = "askDescription"
  /\ \E typed \in TypedDescriptions :
       /\ newValues' =
            [newValues EXCEPT
               !.description = Some(InputAnswer(typed, currentValues.description))]
       /\ asked' = Append(asked, Asked("description", typed))
  /\ pc' = "askAuthor"
  /\ UNCHANGED <<resolverFrame, freshInitialization, endVars>>

\* Lines 289-300: the author; default: the probed author.
AskAuthor ==
  /\ pc = "askAuthor"
  /\ \E typed \in TypedAuthors :
       /\ newValues' =
            [newValues EXCEPT !.author = Some(InputAnswer(typed, currentValues.author))]
       /\ asked' = Append(asked, Asked("author", typed))
  /\ pc' = "askLicense"
  /\ UNCHANGED <<resolverFrame, freshInitialization, endVars>>

\* Lines 302-314: the license, one of the list's choices.
AskLicense ==
  /\ pc = "askLicense"
  /\ \E choice \in Range(spdxLicenseList) :
       /\ newValues' = [newValues EXCEPT !.license = Some(choice)]
       /\ asked' = Append(asked, Asked("license", choice))
  /\ pc' = "askCodeOfConduct"
  /\ UNCHANGED <<resolverFrame, freshInitialization, endVars>>

\* Lines 316-329: the code of conduct.
AskCodeOfConduct ==
  /\ pc = "askCodeOfConduct"
  /\ \E answer \in BOOLEAN :
       /\ newValues' = [newValues EXCEPT !.addCodeOfConduct = Some(answer)]
       /\ asked' = Append(asked, Asked("addCodeOfConduct", answer))
  /\ pc' = "askReadme"
  /\ UNCHANGED <<resolverFrame, freshInitialization, endVars>>

\* Lines 331-344: the README.
AskReadme ==
  /\ pc = "askReadme"
  /\ \E answer \in BOOLEAN :
       /\ newValues' = [newValues EXCEPT !.addReadme = Some(answer)]
       /\ asked' = Append(asked, Asked("addReadme", answer))
  /\ pc' = "plan"
  /\ UNCHANGED <<resolverFrame, freshInitialization, endVars>>

\* ---------------------------------------------------------------- steps
W_pkgcmd == <<"p", "k", "g", "-", "c", "m", "d", " ">>
W_pkgcmdLint == W_pkgcmd \o <<"l", "i", "n", "t">>
W_pkgcmdTest == W_pkgcmd \o <<"t", "e", "s", "t">>
W_pkgcmdFormat == W_pkgcmd \o <<"f", "o", "r", "m", "a", "t", " ", ".">>
W_pkgcmdRelease == W_pkgcmd \o <<"r", "e", "l", "e", "a", "s", "e">>
W_git == <<"g", "i", "t">>
W_huskyInstall == <<"h", "u", "s", "k", "y", " ", "i", "n", "s", "t", "a", "l", "l">>

\* One awaited operation of a step: an external command (execa), a network
\* fetch, a require() of a license text, a file write or a file unlink.
\* key is the command's key, the URL's file or the path; value the string
\* or content passed.
Exec(cmd, key, value) == [kind |-> "exec", cmd |-> cmd, key |-> key, value |-> value]
Fetch(url) == [kind |-> "fetch", cmd |-> "fetch", key |-> url, value |-> <<>>]
Require(license) ==
  [kind |-> "require", cmd |-> "require", key |-> "licenseText", value |-> license]
Write(path, content) ==
  [kind |-> "write", cmd |-> "fs.writeFile", key |-> path, value |-> content]
Unlink(path) == [kind |-> "unlink", cmd |-> "fs.unlink", key |-> path, value |-> <<>>]
NpmPkgSet(key, value) == Exec("npm pkg set", key, value)

Step(title, ops) == [title |-> title, ops |-> ops]

\* compact(array): the entries that are not null.
RECURSIVE compact(_)
compact(array) ==
  IF array = <<>> THEN <<>>
  ELSE (IF IsSome(Head(array)) THEN <<Val(Head(array))>> ELSE <<>>)
         \o compact(Tail(array))

\* cond ? step : null
When(cond, step) == IF cond THEN Some(step) ELSE Null

\* for (const file of files) { try { await fs.unlink(file.path) } catch {} }
UnlinkAll(files) == [i \in 1..Len(files) |-> Unlink(files[i].path)]

\* remote.replace(/^[^:]+:\/\//, ""): the text after a leading "scheme://".
HasScheme(url, k) ==
  /\ k > 1
  /\ k + 2 <= Len(url)
  /\ \A i \in 1..(k - 1) : url[i] # ":"
  /\ url[k] = ":"
  /\ url[k + 1] = "/"
  /\ url[k + 2] = "/"

StripScheme(url) ==
  IF \E k \in 1..Len(url) : HasScheme(url, k)
    THEN From(url, (CHOOSE k \in 1..Len(url) : HasScheme(url, k)) + 3)
    ELSE url

\* ---------------------------------------------------------------- plan
\* Lines 354-394.
\* Mutant: the group is pushed whenever the question was answered.
GitPlannedWhenAnswered == IsSome(newValues.initializeGit)

GitPlanned == Yes(newValues.initializeGit)

GitGroup ==
  [title |-> "Git",
   steps |-> compact(<<
     Some(Step("Initialize git repository", <<Exec("git init", "", <<>>)>>)),
     Some(Step("Create .gitignore",
               <<Fetch(IF language = Some("node") THEN "Node.gitignore"
                                                  ELSE "Go.gitignore"),
                 Write(".gitignore", [file |-> ".gitignore"])>>)),
     When(Truthy(newValues.gitRemote),
          Step("Add git remote",
               <<Exec("git remote add origin", "", Val(newValues.gitRemote))>>)) >>)]

\* Lines 399-405: licenseFiles?.[0]?.content ?? ""
FirstLicenseContent == IF licenseFiles = <<>> THEN <<>> ELSE licenseFiles[1].content

LicensePlanned ==
  /\ Truthy(newValues.license)
  /\ ~LicenseRegExpTest(Val(newValues.license), FirstLicenseContent)

\* Lines 406-455.
LicenseGroup ==
  [title |-> "License",
   steps |-> compact(<<
     When(Len(licenseFiles) > 0,
          Step("Clean up previous LICENSE file", UnlinkAll(licenseFiles))),
     Some(Step(IF Len(licenseFiles) > 0 THEN "Create new  LICENSE file"
                                        ELSE "Create  LICENSE file",
               <<Require(Val(newValues.license)),
                 Write("LICENSE",
                       [file |-> "LICENSE", license |-> Val(newValues.license),
                        author |-> Val(newValues.author),
                        name |-> Val(newValues.name)])>>)) >>)]

\* Lines 460-498.
CodeOfConductPlanned == Yes(newValues.addCodeOfConduct)

CodeOfConductGroup ==
  [title |-> "Code of Conduct",
   steps |-> compact(<<
     When(Len(codeOfConductFiles) > 0,
          Step("Clean up previous CODE_OF_CONDUCT.md file",
               UnlinkAll(codeOfConductFiles))),
     Some(Step(IF Len(codeOfConductFiles) > 0
                 THEN "Create new  CODE_OF_CONDUCT.md file"
                 ELSE "Create  CODE_OF_CONDUCT.md file",
               <<Fetch("code_of_conduct.md"),
                 Write("CODE_OF_CONDUCT.md", [file |-> "CODE_OF_CONDUCT.md"])>>)) >>)]

\* Line 504: const packageJson = parsedPackageJson! || {}
NotParsed == parsedPackageJson = Null \/ ~JsTruthy(Val(parsedPackageJson))
ManifestView == IF NotParsed THEN JObject(EmptyObject) ELSE Val(parsedPackageJson)

\* packageJson?.scripts?.[script], as a condition.
ScriptSet(script) ==
  /\ IsSome(Prop(ManifestView, "scripts"))
  /\ Truthy(Val(Prop(ManifestView, "scripts"))[script])

\* newValues.f && newValues.f !== currentValues?.f
FieldChanged(f) == Truthy(newValues[f]) /\ newValues[f] # currentValues[f]

FieldStep(f, title) ==
  When(FieldChanged(f), Step(title, <<NpmPkgSet(f, Val(newValues[f]))>>))

ScriptStep(script, title, command) ==
  When(~ScriptSet(script), Step(title, <<NpmPkgSet(script, command)>>))

\* Lines 503-715.
ManifestPlanned == language = Some("node")

ManifestGroup ==
  [title |-> "package.json",
   steps |-> compact(<<
     When(NotParsed,
          Step("Create package.json file",
               <<Write("package.json", JSONstringifyName(Val(newValues.name)))>>)),
     FieldStep("name", "Update package.json name"),
     FieldStep("description", "Update package.json description"),
     FieldStep("author", "Update package.json author"),
     FieldStep("license", "Update package.json license"),
     When(FieldChanged("gitRemote"),
          Step("Update package.json repository",
               <<NpmPkgSet("repository.type", W_git),
                 NpmPkgSet("repository.url", Val(newValues.gitRemote))>>)),
     ScriptStep("lint", "Set lint script", W_pkgcmdLint),
     ScriptStep("test", "Set test script", W_pkgcmdTest),
     ScriptStep("format", "Set format script", W_pkgcmdFormat),
     ScriptStep("release", "Set release script", W_pkgcmdRelease) >>)]

\* Lines 717-768.
\* Mutant: the test of freshInitialization is inverted.
ToolingPlannedWhenNotFresh == language = Some("node") /\ ~freshInitialization

ToolingPlanned == language = Some("node") /\ freshInitialization

ToolingGroup ==
  [title |-> "Tooling",
   steps |-> <<
     Step("Configure eslint", <<Write(".eslintrc.js", [file |-> ".eslintrc.js"])>>),
     Step("Configure prettier", <<Write(".prettierrc.js", [file |-> ".prettierrc.js"])>>),
     Step("Configure jest", <<Write("jest.config.js", [file |-> "jest.config.js"])>>),
     Step("Configuring np", <<Write(".np-config.js", [file |-> ".np-config.js"])>>) >>]

\* Lines 770-813.
PreCommitPlanned == language = Some("node") /\ Yes(newValues.addPreCommitLinting)

PreCommitGroup ==
  [title |-> "Pre-commit linting",
   steps |-> compact(<<
     Some(Step("Install dependencies",
               <<Exec("npx husky install", "", <<>>),
                 NpmPkgSet("prepare", W_huskyInstall),
                 Exec("npx husky add", ".husky/pre-commit", <<>>)>>)),
     Some(Step("Configure lint-staged",
               <<Write(".lintstagedrc.js", [file |-> ".lintstagedrc.js"])>>)) >>)]

\* Lines 816-827: the go module; a single task, not a nested list.
GoModulePlanned ==
  language = Some("go") /\ freshInitialization /\ Truthy(newValues.gitRemote)

GoModuleGroup ==
  [title |-> "Initialize go module",
   steps |-> <<Step("Initialize go module",
                    <<Exec("go mod init", "", StripScheme(Val(newValues.gitRemote)))>>)>>]

\* Lines 829-891.  name and description are always answered by then, so
\* that the ?? fallbacks are not taken.
\* Mutant: the README group is pushed unconditionally.
ReadmeAlwaysPlanned == TRUE

ReadmePlanned == Yes(newValues.addReadme)

ReadmeGroup ==
  [title |-> "README",
   steps |-> compact(<<
     When(Len(readmeFiles) > 0,
          Step("Clean up current README", UnlinkAll(readmeFiles))),
     Some(Step(IF Len(readmeFiles) > 0 THEN "Create new README file"
                                       ELSE "Create  README file",
               <<Write("README.md",
                       [file |-> "README.md", language |-> Val(language),
                        name |-> Val(newValues.name),
                        description |-> Val(newValues.description),
                        license |-> Val(newValues.license)])>>)) >>)]

\* The first step at or after position n: a group whose list of steps is
\* empty (a manifest with nothing to change) completes at once.
RECURSIVE FirstFrom(_, _)
FirstFrom(list, n) ==
  IF n.group > Len(list) THEN n
  ELSE IF n.step > Len(list[n.group].steps)
    THEN FirstFrom(list, [group |-> n.group + 1, step |-> 1])
  ELSE n

\* Lines 349-893: tasks.push(...) under each group's condition, in order.
PlannedTasks ==
  compact(<<
    When(GitPlanned, GitGroup),
    When(LicensePlanned, LicenseGroup),
    When(CodeOfConductPlanned, CodeOfConductGroup),
    When(ManifestPlanned, ManifestGroup),
    When(ToolingPlanned, ToolingGroup),
    When(PreCommitPlanned, PreCommitGroup),
    When(GoModulePlanned, GoModuleGroup),
    When(ReadmePlanned, ReadmeGroup) >>)

Plan ==
  /\ pc = "plan"
  /\ tasks' = PlannedTasks
  /\ next' = FirstFrom(PlannedTasks, [group |-> 1, step |-> 1])
  /\ pc' = "run"
  /\ UNCHANGED <<options, probeVars, freshInitialization, currentValues, newValues,
                 parsedPackageJson, asked, effects, started, disk, endVars>>

\* ---------------------------------------------------------------- running
\* The manifest on disk after `npm pkg set key=value`.
SetManifestKey(o, key, value) ==
  IF key \in {"name", "description", "author", "license"}
    THEN [o EXCEPT ![key] = Some(value)]
  ELSE IF key = "repository.type"
    THEN [o EXCEPT !.repository =
            Some([(IF IsSome(o.repository) THEN Val(o.repository) ELSE NoRepository)
                    EXCEPT !.type = Some(value)])]
  ELSE IF key = "repository.url"
    THEN [o EXCEPT !.repository =
            Some([(IF IsSome(o.repository) THEN Val(o.repository) ELSE NoRepository)
                    EXCEPT !.url = Some(value)])]
  ELSE [o EXCEPT !.scripts =
          Some([(IF IsSome(o.scripts) THEN Val(o.scripts) ELSE NoScripts)
                  EXCEPT ![key] = Some(value)])]

\* Whether package.json on disk is a manifest npm can edit.
EditableManifest(d) ==
  /\ IsSome(d["package.json"])
  /\ Val(d["package.json"]).kind = "json"
  /\ Val(d["package.json"]).value.t = "object"

\* An operation the directory makes fail whatever else happens: npm cannot
\* edit a missing or unreadable manifest, git cannot add a remote outside a
\* repository, go does not overwrite a go.mod.
OpBlocked(d, op) ==
  \/ op.cmd = "npm pkg set" /\ ~EditableManifest(d)
  \/ op.cmd = "git remote add origin" /\ d[".git/config"] = Null
  \/ op.cmd = "go mod init" /\ IsSome(d["go.mod"])

\* The directory after an operation that succeeded.
ApplyOp(d, op) ==
  IF op.kind = "write" THEN [d EXCEPT ![op.key] = Some(op.value)]
  ELSE IF op.cmd = "npm pkg set"
    THEN [d EXCEPT !["package.json"] =
            Some(JsonText(JObject(SetManifestKey(Val(d["package.json"]).value.o,
                                                 op.key, op.value))))]
  ELSE IF op.cmd = "git init"
    THEN [d EXCEPT ![".git/config"] =
            IF IsSome(d[".git/config"]) THEN d[".git/config"]
            ELSE Some([origin |-> Null])]
  ELSE IF op.cmd = "git remote add origin"
    THEN [d EXCEPT ![".git/config"] = Some([origin |-> Some(op.value)])]
  ELSE IF op.cmd = "go mod init"
    THEN [d EXCEPT !["go.mod"] = Some(W_modulePrefix \o op.value \o <<"\n">>)]
  ELSE IF op.cmd = "npx husky add"
    THEN [d EXCEPT ![op.key] = Some([file |-> op.key])]
  ELSE d

\* Mutant: the unlink is awaited outside a try block.
SwallowsNothing(op) == FALSE

\* try { await fs.unlink(...) } catch { /* ignore errors */ }: an unlink
\* that throws is caught where it is awaited.
Swallowed(op) == op.kind = "unlink"

\* The operations of a step, awaited one after the other from operation i.
\* failAt is the operation that fails for a reason outside the directory
\* (0: none); removed are the paths whose unlink succeeds.  An unlink that
\* throws is caught inside the loop and the loop goes on; any other failure
\* rejects the step at once.
RECURSIVE RunOps(_, _, _, _, _, _)
RunOps(ops, i, failAt, removed, d, eff) ==
  IF i > Len(ops) THEN [disk |-> d, effects |-> eff, failed |-> FALSE]
  ELSE IF ops[i].kind = "unlink" /\ ops[i].key \in removed
    THEN RunOps(ops, i + 1, failAt, removed, [d EXCEPT ![ops[i].key] = Null],
                Append(eff, ops[i]))
  ELSE IF ops[i].kind = "unlink" /\ Swallowed(ops[i])
    THEN RunOps(ops, i + 1, failAt, removed, d, Append(eff, ops[i]))
  ELSE IF ops[i].kind = "unlink" \/ i = failAt \/ OpBlocked(d, ops[i])
    THEN [disk |-> d, effects |-> Append(eff, ops[i]), failed |-> TRUE]
  ELSE RunOps(ops, i + 1, failAt, removed, ApplyOp(d, ops[i]), Append(eff, ops[i]))

FailPoints(ops) == {0} \cup {i \in 1..Len(ops) : ops[i].kind # "unlink"}
UnlinkTargets(ops) == {ops[i].key : i \in {j \in 1..Len(ops) : ops[j].kind = "unlink"}}

\* Mutant: Listr run with exitOnError: false, which goes on after a failure.
StepNeverRejects(failed) == FALSE

\* Listr with its default options (exitOnError, not concurrent): a step
\* whose promise rejects rejects the list it is in, and the lists around it.
StepRejects(failed) == failed

HasNext == next.group <= Len(tasks)
NextStep == tasks[next.group].steps[next.step]
\* Mutant: the step after the next one is taken.
AdvanceByTwo == FirstFrom(tasks, [next EXCEPT !.step = next.step + 2])

Advance == FirstFrom(tasks, [next EXCEPT !.step = next.step + 1])

\* Line 895: listr.run(), one step at a time.
RunStep ==
  /\ pc = "run"
  /\ HasNext
  /\ \E failAt \in FailPoints(NextStep.ops), removed \in SUBSET UnlinkTargets(NextStep.ops) :
       LET r == RunOps(NextStep.ops, 1, failAt, removed, disk, effects)
       IN /\ disk' = r.disk
          /\ effects' = r.effects
          /\ started' = Append(started,
                               [group |-> tasks[next.group].title,
                                title |-> NextStep.title, failed |-> r.failed])
          /\ IF StepRejects(r.failed)
               THEN /\ err' = Some("StepFailure")
                    /\ pc' = "catch"
                    /\ next' = next
               ELSE /\ next' = Advance
                    /\ UNCHANGED <<err, pc>>
  /\ UNCHANGED <<options, probeVars, freshInitialization, currentValues, newValues,
                 parsedPackageJson, tasks, asked, exitCode, console>>

\* Lines 897-898: every step done; the process then ends by itself, with
\* status 0.
SuccessStatus == 0

Finish ==
  /\ pc = "run"
  /\ ~HasNext
  /\ console' = Append(console, "Set up complete!")
  /\ exitCode' = Some(SuccessStatus)
  /\ pc' = "done"
  /\ UNCHANGED <<options, probeVars, freshInitialization, currentValues, newValues,
                 parsedPackageJson, asked, runVars, err>>

\* Mutant: the catch block ends the process with the success status.
CatchStatusZero == SuccessStatus

\* Line 902: process.exit(1)
CatchStatus == 1

\* Lines 899-903: the catch block.
Catch ==
  /\ pc = "catch"
  /\ console' = console \o <<"Uncaught Error:", Val(err)>>
  /\ exitCode' = Some(CatchStatus)
  /\ pc' = "done"
  /\ UNCHANGED <<options, probeVars, freshInitialization, currentValues, newValues,
                 parsedPackageJson, asked, runVars, err>>

Next ==
  \/ Probe
  \/ CheckProjectType
  \/ ParseManifest
  \/ ParseGoModule
  \/ Confirm
  \/ CheckGoGit
  \/ AskLanguage
  \/ AskInitializeGit
  \/ AskGitRemote
  \/ AskPreCommitLinting
  \/ AskName
  \/ AskDescription
  \/ AskAuthor
  \/ AskLicense
  \/ AskCodeOfConduct
  \/ AskReadme
  \/ Plan
  \/ RunStep
  \/ Finish
  \/ Catch

Spec == Init /\ [][Next]_vars

\* ---------------------------------------------------------------- claims
\* What the claims speak of.
Resolving ==
  {"confirm", "checkGoGit", "askLanguage", "askInitializeGit", "askGitRemote",
   "askPreCommitLinting", "askName", "askDescription", "askAuthor", "askLicense",
   "askCodeOfConduct", "askReadme"}

\* The operator answered no to the reinitialize confirmation.
Declined ==
  \E i \in 1..Len(asked) : asked[i].q = "reinitialize" /\ asked[i].a = FALSE

\* The task list has been built: the last question has been answered.
PlanBuilt == pc = "run" \/ (pc \in {"catch", "done"} /\ IsSome(newValues.addReadme))

RECURSIVE CountSteps(_, _)
CountSteps(list, g) ==
  IF g > Len(list) THEN 0 ELSE Len(list[g].steps) + CountSteps(list, g + 1)

\* Every planned step was started and none failed.
AllCompleted ==
  /\ PlanBuilt
  /\ Len(started) = CountSteps(tasks, 1)
  /\ \A i \in 1..Len(started) : ~started[i].failed

\* Nothing was written, deleted, executed or fetched.
Untouched == effects = <<>> /\ started = <<>>

\* C1: for every directory in which both package.json and go.mod are
\* present at probe time, the run ends with ConflictingProjectType before
\* any question is asked, whatever the reinitialize flag.  (The claim as
\* stated; an empty package.json or go.mod refutes it.)
C1_ConflictAlways ==
  (IsSome(packageJson) /\ IsSome(goMod) /\ pc \notin {"probe", "checkProjectType"})
    => (err = Some("ConflictingProjectType") /\ asked = <<>>)

\* C2: when a manifest or module descriptor is found, the flag is false and
\* the operator declines the confirmation, the run exits with status 0 at
\* once: no further question, no write, delete, command or fetch, no error
\* reported.
C2_DeclineExitsCleanly ==
  Declined =>
    /\ pc = "done"
    /\ exitCode = Some(0)
    /\ Len(asked) = 1
    /\ Untouched
    /\ tasks = <<>>
    /\ err = Null
    /\ console = <<>>
    /\ disk["package.json"] = packageJson
    /\ disk["go.mod"] = goMod

C2_Witness ==
  /\ Declined
  /\ pc = "done"
  /\ ~options.reinitialize
  /\ TextTruthy(packageJson)

\* C3: once a step fails (a best-effort delete never fails its step), no
\* later step of the plan is started, and the run ends with a non-zero
\* status after reporting the error.
C3_FailureAborts ==
  /\ \A i \in 1..(Len(started) - 1) : ~started[i].failed
  /\ (Len(started) > 0 /\ started[Len(started)].failed) =>
       /\ pc \in {"catch", "done"}
       /\ err = Some("StepFailure")
       /\ pc = "done" =>
            /\ IsSome(exitCode)
            /\ Val(exitCode) # 0
            /\ console = <<"Uncaught Error:", "StepFailure">>

\* A first step failed while later steps were still planned, and the run
\* is over.
C3_Witness ==
  /\ pc = "done"
  /\ Len(started) = 1
  /\ started[1].failed
  /\ CountSteps(tasks, 1) > 3

\* C4: a run that ended ended with status 0 exactly when the operator
\* declined the confirmation or every planned step completed, the success
\* line being printed only in the latter case; every other run that ended
\* ended with status 1, after an error.
C4_ExitStatus ==
  pc = "done" =>
    /\ exitCode \in {Some(0), Some(1)}
    /\ exitCode = Some(0) <=> (Declined \/ AllCompleted)
    /\ exitCode = Some(1) <=> IsSome(err)
    /\ (\E i \in 1..Len(console) : console[i] = "Set up complete!") <=> AllCompleted
    /\ ~(Declined /\ AllCompleted)

\* A run of several steps that all completed.
C4_Witness ==
  /\ pc = "done"
  /\ exitCode = Some(0)
  /\ AllCompleted
  /\ Len(started) > 3

\* C5, as stated: whenever the resolved language is go, detected from a
\* go.mod or chosen at the language question, and no git configuration
\* exists, the run ends with GoRequiresGit.  (A run the operator ended by
\* declining the confirmation is left out.)
C5_GoAlwaysRequiresGit ==
  (pc = "done" /\ ~Declined /\ language = Some("go") /\ gitConfig = Null)
    => err = Some("GoRequiresGit")

\* C5, amended: whenever the language go was detected from a go.mod and no
\* git configuration exists, the run, unless the operator declined the
\* confirmation, ends with GoRequiresGit before any further question and
\* before anything is touched; and GoRequiresGit is raised in no other run:
\* with go chosen at the language question the initialize-git question is
\* asked instead.
C5_DetectedGoRequiresGit ==
  /\ (pc \in {"catch", "done"} \cup (Resolving \ {"confirm", "checkGoGit"}) \cup {"plan", "run"}
        /\ ~Declined /\ currentValues.language = Some("go") /\ gitConfig = Null)
       => /\ err = Some("GoRequiresGit")
          /\ \A i \in 1..Len(asked) : asked[i].q = "reinitialize"
          /\ Untouched
          /\ pc = "done" => exitCode = Some(1)
  /\ err = Some("GoRequiresGit")
       => (currentValues.language = Some("go") /\ newValues.language = Null)
  /\ (newValues.language = Some("go") /\ gitConfig = Null /\ pc \notin {"askInitializeGit"})
       => \E i \in 1..Len(asked) : asked[i].q = "initializeGit"

C5_Witness ==
  /\ pc = "done"
  /\ err = Some("GoRequiresGit")
  /\ Truthy(goMod)
  /\ gitConfig = Null

\* C6: in a fresh initialization without git configuration where the
\* operator chooses go and answers no to the initialize-git question, the
\* run ends with GoRequiresGitInit before any later question and before any
\* step; and no run with language go reaches plan execution unless git is
\* already configured or is being initialized in that run.
C6_GoRequiresGitInit ==
  /\ (newValues.language = Some("go") /\ newValues.initializeGit = Some(FALSE))
       => /\ freshInitialization
          /\ gitConfig = Null
          /\ pc \in {"catch", "done"}
          /\ err = Some("GoRequiresGitInit")
          /\ asked[Len(asked)].q = "initializeGit"
          /\ Untouched
          /\ tasks = <<>>
          /\ pc = "done" => exitCode = Some(1)
  /\ (language = Some("go") /\ (pc \in {"plan", "run"} \/ PlanBuilt \/ started # <<>>))
       => (gitConfig # Null \/ Yes(newValues.initializeGit))

C6_Witness ==
  /\ pc = "done"
  /\ err = Some("GoRequiresGitInit")
  /\ asked[Len(asked)] = Asked("initializeGit", FALSE)
  /\ newValues.language = Some("go")

\* C7, as stated: whenever package.json exists, go.mod does not, and the
\* content of package.json is not parseable JSON, the empty file included,
\* the run ends with InvalidManifest and status 1, without a question and
\* without touching the directory.  (An empty package.json refutes it.)
C7_UnparseableIsInvalid ==
  (IsSome(packageJson) /\ goMod = Null /\ JSONparse(Val(packageJson)) = Null
     /\ pc \notin {"probe", "checkProjectType", "parseManifest"})
    => /\ err = Some("InvalidManifest")
       /\ asked = <<>>
       /\ Untouched
       /\ pc = "done" => exitCode = Some(1)

\* The operations of the steps of the group with the given title.
GroupOps(title) ==
  UNION { UNION { Range(tasks[g].steps[k].ops) : k \in 1..Len(tasks[g].steps) } :
            g \in {h \in 1..Len(tasks) : tasks[h].title = title} }

InPlan(title) == \E g \in 1..Len(tasks) : tasks[g].title = title

IsSpace(c) == c \in {" ", "\n", "\t", "\r"}

\* text contains word as a token delimited by whitespace or by the ends of
\* the text, compared case-insensitively.
WholeWordToken(word, text) ==
  \E i \in 1..(Len(text) + 1) :
    /\ MatchesAt(text, word, i)
    /\ (i = 1 \/ (i > 1 /\ IsSpace(text[i - 1])))
    /\ LET j == i + Len(word)
       IN j = Len(text) + 1 \/ (j <= Len(text) /\ IsSpace(text[j]))

\* C8, as stated: the License group is in the plan exactly when a license
\* was resolved and the content of the first detected license file (empty
\* if none) does not contain the license identifier as a whole-word,
\* case-insensitive token; so that a file starting with "MIT License" and
\* the resolved license MIT leave the license files alone.  (The expression
\* the code builds tests for the letter s, not for whitespace.)
C8_LicenseWholeWord ==
  PlanBuilt =>
    (InPlan("License") <=>
       (Truthy(newValues.license)
          /\ ~WholeWordToken(Val(newValues.license), FirstLicenseContent)))

MetadataFields == {"name", "description", "author", "license"}

\* C9, as stated: in a node run, for each field of name, description,
\* author and license and every resolved value, the empty string included,
\* the Manifest group has an update step for the field exactly when the
\* resolved value differs from the probed value, and no step rewrites an
\* existing manifest as a whole.
C9_FieldPatchedIffChanged ==
  (PlanBuilt /\ language = Some("node")) =>
    /\ \A f \in MetadataFields :
         (\E op \in GroupOps("package.json") : op.cmd = "npm pkg set" /\ op.key = f)
           <=> newValues[f] # currentValues[f]
    /\ IsSome(packageJson) =>
         ~\E op \in GroupOps("package.json") : op.kind = "write" /\ op.key = "package.json"

ScriptNames == {"lint", "test", "format", "release"}

FixedScript(script) ==
  CASE script = "lint" -> W_pkgcmdLint
    [] script = "test" -> W_pkgcmdTest
    [] script = "format" -> W_pkgcmdFormat
    [] script = "release" -> W_pkgcmdRelease

\* The probed manifest has a scripts object with an entry of that name.
ScriptDefined(script) ==
  /\ IsSome(parsedPackageJson)
  /\ IsSome(Prop(Val(parsedPackageJson), "scripts"))
  /\ IsSome(Val(Prop(Val(parsedPackageJson), "scripts"))[script])

\* C10, as stated: in a node run, for each of lint, test, format and
\* release: if the probed manifest defines the script, no step of the
\* Manifest group sets it; if it does not, a step sets it to the fixed
\* string of that name.  (A script defined as the empty string refutes it.)
C10_ScriptsNeverOverwritten ==
  (PlanBuilt /\ language = Some("node")) =>
    \A script \in ScriptNames :
      LET sets == {op \in GroupOps("package.json") :
                     op.cmd = "npm pkg set" /\ op.key = script}
      IN IF ScriptDefined(script)
           THEN sets = {}
           ELSE sets = {NpmPkgSet(script, FixedScript(script))}

\* The questions asked so far, by name.
AskedNames == {asked[i].q : i \in 1..Len(asked)}

ToolingFiles == {".eslintrc.js", ".prettierrc.js", "jest.config.js", ".np-config.js"}

\* A tooling configuration file was written.
ToolingWritten ==
  \E i \in 1..Len(effects) : effects[i].kind = "write" /\ effects[i].key \in ToolingFiles

\* C11, as stated: the Tooling group is planned only for the language node
\* on a fresh initialization: in every run against a directory that had a
\* manifest at probe time, the operator having confirmed or the
\* reinitialize flag having been passed, the group is not planned and no
\* tooling configuration file is written.  Stated for the manifests the
\* run itself takes as present, the non-empty ones.  (A run with the flag
\* keeps freshInitialization true.)
C11_ToolingOnlyWhenFresh ==
  /\ (PlanBuilt /\ InPlan("Tooling")) => language = Some("node")
  /\ TextTruthy(packageJson) => (~InPlan("Tooling") /\ ~ToolingWritten)

\* C12, as stated: in every run against a directory that has a go.mod, by
\* flag or by confirmation, the language is go, the language question is
\* not asked and the step that initializes the go module is never planned,
\* whatever the git state and the answers.  Stated for the module
\* descriptors the run itself takes as present, the non-empty ones.  (A run
\* with the flag keeps freshInitialization true, and the remote is asked
\* when no origin is known.)
C12_GoModNeverInitializedAgain ==
  Truthy(goMod) =>
    /\ "language" \notin AskedNames
    /\ PlanBuilt => (language = Some("go") /\ ~InPlan("Initialize go module"))

\* The groups of the plan with the given title.
GroupsTitled(title) == {g \in 1..Len(tasks) : tasks[g].title = title}

\* An effect on a readme candidate or on README.md.
ReadmeTouched ==
  \E i \in 1..Len(effects) :
    /\ effects[i].kind \in {"write", "unlink"}
    /\ effects[i].key \in Range(readmeFileNames)

IsWriteStep(step) == \E i \in 1..Len(step.ops) : step.ops[i].kind = "write"

\* C13: if addReadme resolves to false the plan has no README group and no
\* readme file is deleted or written; if it resolves to true the README
\* group has exactly one write step, whose only operation writes README.md,
\* preceded by a cleanup step, which unlinks the detected files and nothing
\* else, exactly when at least one readme candidate was detected.
C13_ReadmeGroup ==
  /\ ~Yes(newValues.addReadme) => (~InPlan("README") /\ ~ReadmeTouched)
  /\ (PlanBuilt /\ Yes(newValues.addReadme)) =>
       /\ Cardinality(GroupsTitled("README")) = 1
       /\ LET steps == tasks[CHOOSE g \in GroupsTitled("README") : TRUE].steps
              last == steps[Len(steps)]
          IN /\ Cardinality({k \in 1..Len(steps) : IsWriteStep(steps[k])}) = 1
             /\ Len(last.ops) = 1
             /\ last.ops[1].kind = "write"
             /\ last.ops[1].key = "README.md"
             /\ Len(steps) = (IF Len(readmeFiles) > 0 THEN 2 ELSE 1)
             /\ Len(readmeFiles) > 0 =>
                  /\ Len(steps[1].ops) = Len(readmeFiles)
                  /\ \A i \in 1..Len(readmeFiles) :
                       steps[1].ops[i] = Unlink(readmeFiles[i].path)

\* A run that replaced two detected readme files by README.md.
C13_Witness ==
  /\ pc = "done"
  /\ AllCompleted
  /\ Yes(newValues.addReadme)
  /\ Len(readmeFiles) = 2
  /\ ReadmeTouched
  /\ IsSome(disk["README.md"])

\* The operator's answer to a question, Null when it was not asked.
AnswerTo(q) ==
  IF q \in AskedNames
    THEN Some(asked[CHOOSE i \in 1..Len(asked) : asked[i].q = q].a)
    ELSE Null

\* The titles of the groups of the plan, in order.
PlanTitles == [g \in 1..Len(tasks) |-> tasks[g].title]

\* No manifest, module descriptor, git configuration or license file; the
\* operator selects node, declines git, leaves the remote empty and declines
\* the code of conduct and the readme.
EmptyDirectoryNodeRun ==
  /\ packageJson = Null
  /\ goMod = Null
  /\ gitConfig = Null
  /\ licenseFiles = <<>>
  /\ AnswerTo("language") = Some("Node")
  /\ AnswerTo("initializeGit") = Some(FALSE)
  /\ AnswerTo("gitRemote") = Some(<<>>)
  /\ AnswerTo("addCodeOfConduct") = Some(FALSE)
  /\ AnswerTo("addReadme") = Some(FALSE)

\* C14: in that run the plan is the License group, the Manifest group and
\* the Tooling group, in that order and nothing else; the License group
\* only creates the file; the Manifest group creates the manifest with the
\* resolved name, sets the four scripts and has no repository step.
C14_EmptyDirectoryPlan ==
  (PlanBuilt /\ EmptyDirectoryNodeRun) =>
    /\ PlanTitles = <<"License", "package.json", "Tooling">>
    /\ Len(tasks[1].steps) = 1
    /\ tasks[1].steps[1].ops[2].kind = "write"
    /\ tasks[1].steps[1].ops[2].key = "LICENSE"
    /\ tasks[2].steps[1] =
         Step("Create package.json file",
              <<Write("package.json", JSONstringifyName(Val(newValues.name)))>>)
    /\ \A script \in ScriptNames :
         NpmPkgSet(script, FixedScript(script)) \in GroupOps("package.json")
    /\ ~\E op \in GroupOps("package.json") :
          op.key \in {"repository.type", "repository.url"}
    /\ \A k \in 1..Len(tasks[2].steps) :
         tasks[2].steps[k].title # "Update package.json repository"

\* Such a run, with the project named demo, completed.
C14_Witness ==
  /\ pc = "done"
  /\ AllCompleted
  /\ EmptyDirectoryNodeRun
  /\ newValues.name = Some(W_demo)
  /\ newValues.author = Some(W_A)
  /\ newValues.license = Some(W_MIT)

\* The positions of action() before it ends, in program order.
PcOrder ==
  <<"probe", "checkProjectType", "parseManifest", "parseGoModule", "confirm",
    "checkGoGit", "askLanguage", "askInitializeGit", "askGitRemote",
    "askPreCommitLinting", "askName", "askDescription", "askAuthor", "askLicense",
    "askCodeOfConduct", "askReadme", "plan", "run">>

PcRank(p) == CHOOSE i \in 1..Len(PcOrder) : PcOrder[i] = p

\* The run has gone past the given position without ending there.
Past(p) ==
  \/ pc \in Range(PcOrder) /\ PcRank(pc) > PcRank(p)
  \/ PlanBuilt

\* The fixed order of the questions; the confirmation and the language
\* question share the first place.
QuestionRank(q) ==
  CASE q \in {"reinitialize", "language"} -> 1
    [] q = "initializeGit" -> 2
    [] q = "gitRemote" -> 3
    [] q = "addPreCommitLinting" -> 4
    [] q = "name" -> 5
    [] q = "description" -> 6
    [] q = "author" -> 7
    [] q = "license" -> 8
    [] q = "addCodeOfConduct" -> 9
    [] q = "addReadme" -> 10

\* q is asked exactly when cond holds: never without it, and always with
\* it once the run has gone past position p, where q is asked.
AskedExactlyWhen(q, p, cond) ==
  /\ q \in AskedNames => cond
  /\ (Past(p) /\ cond) => q \in AskedNames

\* The discipline of the questions, given whether a manifest and whether a
\* module descriptor exist.
QuestionDiscipline(hasManifest, hasModule) ==
  /\ \A i, j \in 1..Len(asked) :
       i < j => QuestionRank(asked[i].q) < QuestionRank(asked[j].q)
  /\ AskedExactlyWhen("language", "askLanguage", ~hasManifest /\ ~hasModule)
  /\ AskedExactlyWhen("reinitialize", "confirm",
                      (hasManifest \/ hasModule) /\ ~options.reinitialize)
  /\ AskedExactlyWhen("initializeGit", "askInitializeGit",
                      pc # "probe" /\ gitConfig = Null)
  /\ AskedExactlyWhen("gitRemote", "askGitRemote",
                      \/ Yes(newValues.initializeGit)
                      \/ (pc # "probe" /\ (gitConfig = Null \/ Val(gitConfig).origin = Null)))
  /\ AskedExactlyWhen("addPreCommitLinting", "askPreCommitLinting",
                      Yes(newValues.initializeGit) /\ language = Some("node"))
  /\ AskedExactlyWhen("name", "askName", TRUE)
  /\ AskedExactlyWhen("description", "askDescription", TRUE)
  /\ AskedExactlyWhen("author", "askAuthor", TRUE)
  /\ AskedExactlyWhen("license", "askLicense", TRUE)
  /\ AskedExactlyWhen("addCodeOfConduct", "askCodeOfConduct", TRUE)
  /\ AskedExactlyWhen("addReadme", "askReadme", TRUE)

\* C15, as stated: the questions asked follow the fixed order, none twice;
\* the language question is asked exactly when neither manifest nor module
\* descriptor exists, the confirmation exactly when one exists and the flag
\* is false, initialize-git exactly when there is no git configuration,
\* git-remote exactly when git is being initialized or no origin is known,
\* pre-commit exactly when git is being initialized and the language is
\* node, and the last six in every run that does not end earlier.  (An
\* empty package.json or go.mod exists and yet counts as absent.)
C15_QuestionOrder ==
  QuestionDiscipline(pc # "probe" /\ IsSome(packageJson), pc # "probe" /\ IsSome(goMod))

\* The order in which the groups are pushed.
GroupOrder ==
  <<"Git", "License", "Code of Conduct", "package.json", "Tooling",
    "Pre-commit linting", "Initialize go module", "README">>

GroupRank(title) == CHOOSE i \in 1..Len(GroupOrder) : GroupOrder[i] = title

\* The steps of the groups from g on, in order, each with its group.
RECURSIVE FlatSteps(_, _)
FlatSteps(list, g) ==
  IF g > Len(list) THEN <<>>
  ELSE [k \in 1..Len(list[g].steps) |->
          [group |-> list[g].title, title |-> list[g].steps[k].title,
           ops |-> list[g].steps[k].ops]]
         \o FlatSteps(list, g + 1)

\* The operations of the first n steps, in order.
RECURSIVE FlatOps(_, _)
FlatOps(steps, n) ==
  IF n = 0 THEN <<>> ELSE FlatOps(steps, n - 1) \o steps[n].ops

IsPrefix(s, t) == Len(s) <= Len(t) /\ s = SubSeq(t, 1, Len(s))

\* C16: the groups present are in the relative order Git, License, Code of
\* Conduct, package.json, Tooling, Pre-commit linting, go module, README;
\* the steps started are, in order and each once, the first steps of the
\* plan, and all of them in a run that succeeded; and the operations
\* performed are, in order, the first operations of those steps.
C16_SequentialInOrder ==
  /\ \A g, h \in 1..Len(tasks) :
       /\ tasks[g].title \in Range(GroupOrder)
       /\ g < h => GroupRank(tasks[g].title) < GroupRank(tasks[h].title)
  /\ LET flat == FlatSteps(tasks, 1)
     IN /\ Len(started) <= Len(flat)
        /\ \A i \in 1..Len(started) :
             /\ started[i].group = flat[i].group
             /\ started[i].title = flat[i].title
        /\ LET ops == FlatOps(flat, Len(started))
           IN /\ IsPrefix(effects, ops)
              /\ Len(started) > 0 =>
                   Len(effects) >= Len(ops) - Len(flat[Len(started)].ops)
        /\ (pc = "done" /\ exitCode = Some(0) /\ ~Declined) =>
             /\ Len(started) = Len(flat)
             /\ effects = FlatOps(flat, Len(flat))

\* A run of at least four groups, one of them of several steps, completed.
C16_Witness ==
  /\ pc = "done"
  /\ AllCompleted
  /\ Len(tasks) >= 4
  /\ Len(started) > Len(tasks)
  /\ Len(effects) > Len(started)

\* The effective remote: the operator's, if one was supplied, else the
\* probed origin.
EffectiveRemote ==
  IF Truthy(newValues.gitRemote) THEN newValues.gitRemote ELSE currentValues.gitRemote

\* C17, as stated: the step that initializes the go module is in the plan
\* exactly when the language is go, the run is a fresh initialization and
\* the effective remote is known; its module path is that remote without a
\* leading scheme://.  (The code reads the operator's remote only, which is
\* not asked when the origin is known.)
C17_GoModuleWhenRemoteKnown ==
  PlanBuilt =>
    /\ InPlan("Initialize go module") <=>
         (language = Some("go") /\ freshInitialization /\ Truthy(EffectiveRemote))
    /\ InPlan("Initialize go module") =>
         GroupOps("Initialize go module") =
           {Exec("go mod init", "", StripScheme(Val(EffectiveRemote)))}

\* C18: the Git group is in the plan exactly when the operator answered
\* yes to the initialize-git question; it then runs git init, then the
\* fetch and write of .gitignore, then, exactly when the remote supplied
\* is not empty, the registration of the origin; without a supplied remote
\* no step of the plan registers a remote.
C18_GitGroup ==
  PlanBuilt =>
    LET supplied == AnswerTo("gitRemote")
        registers == {g \in 1..Len(tasks) :
                        \E k \in 1..Len(tasks[g].steps) :
                          \E n \in 1..Len(tasks[g].steps[k].ops) :
                            tasks[g].steps[k].ops[n].cmd = "git remote add origin"}
    IN /\ InPlan("Git") <=> AnswerTo("initializeGit") = Some(TRUE)
       /\ InPlan("Git") =>
            /\ tasks[1].title = "Git"
            /\ Cardinality(GroupsTitled("Git")) = 1
            /\ IsSome(supplied)
            /\ LET steps == tasks[1].steps
               IN /\ Len(steps) = (IF Val(supplied) # <<>> THEN 3 ELSE 2)
                  /\ steps[1].ops = <<Exec("git init", "", <<>>)>>
                  /\ Len(steps[2].ops) = 2
                  /\ steps[2].ops[1].kind = "fetch"
                  /\ steps[2].ops[2] = Write(".gitignore", [file |-> ".gitignore"])
                  /\ Val(supplied) # <<>> =>
                       steps[3].ops =
                         <<Exec("git remote add origin", "", Val(supplied))>>
       /\ registers = (IF InPlan("Git") /\ Val(supplied) # <<>> THEN {1} ELSE {})

\* A run that initialized git and registered the remote supplied.
C18_Witness ==
  /\ pc = "done"
  /\ AllCompleted
  /\ InPlan("Git")
  /\ AnswerTo("gitRemote") = Some(W_ssh)
  /\ disk[".git/config"] = Some([origin |-> Some(W_ssh)])

CleanupTitles ==
  {"Clean up previous LICENSE file", "Clean up previous CODE_OF_CONDUCT.md file",
   "Clean up current README"}

\* The files detected for the group of the given title.
DetectedFor(group) ==
  CASE group = "License" -> licenseFiles
    [] group = "Code of Conduct" -> codeOfConductFiles
    [] group = "README" -> readmeFiles

\* An unlink was attempted on a file that is still there: it failed.
UnlinkFailed ==
  \E i \in 1..Len(effects) :
    /\ effects[i].kind = "unlink"
    /\ effects[i].key \notin {"LICENSE", "CODE_OF_CONDUCT.md", "README.md"}
    /\ disk[effects[i].key] # Null

\* C19: a cleanup step never fails, whatever unlink fails in it: every
\* detected file of the group is attempted, in order; the run goes on with
\* the write step of the same group, and is not ended by the cleanup.
C19_DeleteFailuresSwallowed ==
  /\ \A i \in 1..Len(started) :
       started[i].title \in CleanupTitles =>
         /\ ~started[i].failed
         /\ LET files == DetectedFor(started[i].group)
            IN \E n \in 0..Len(effects) :
                 /\ n + Len(files) <= Len(effects)
                 /\ \A k \in 1..Len(files) : effects[n + k] = Unlink(files[k].path)
  /\ (Len(started) > 0 /\ started[Len(started)].title \in CleanupTitles) =>
       /\ pc = "run"
       /\ err = Null
       /\ HasNext
       /\ tasks[next.group].title = started[Len(started)].group
       /\ IsWriteStep(NextStep)
  /\ (IsSome(err) /\ Len(started) > 0) =>
       started[Len(started)].title \notin CleanupTitles

\* A run in which an unlink failed completed all its steps.
C19_Witness ==
  /\ pc = "done"
  /\ AllCompleted
  /\ UnlinkFailed
  /\ \E i \in 1..Len(started) : started[i].title \in CleanupTitles
  /\ Len(tasks) > 1

\* ---------------------------------------------------------------- go.mod texts
\* Lines of a go.mod: a module line, one with blanks around the path, a
\* second module line, a go line, a line of neither kind, an empty line.
L_module == W_modulePrefix \o <<"h">>
L_modulePadded == W_modulePrefix \o <<" ", "h", " ">>
L_moduleOther == W_modulePrefix \o <<"k">>
L_go == W_goPrefix \o <<"1">>
L_other == <<"x">>
GoModLines == {L_module, L_modulePadded, L_moduleOther, L_go, L_other, <<>>}

\* lines.join("\n")
RECURSIVE Join(_)
Join(lines) ==
  IF Len(lines) = 1 THEN lines[1]
  ELSE lines[1] \o <<"\n">> \o Join(Tail(lines))

GoModTexts ==
  UNION { {Join(lines) : lines \in [1..n -> GoModLines]} : n \in 1..MaxLines }

\* A go module of each text, with a git repository.
GoModRuns ==
  { <<Directory(Null, Some(text), Some([origin |-> Null]),
                NoCandidates(licenseFileNames), NoCandidates(codeOfConductFileNames),
                NoCandidates(readmeFileNames)),
      [reinitialize |-> TRUE]>> : text \in GoModTexts }

InitGoMod == InitIn(GoModRuns)

\* The run up to and including the parse of go.mod.
NextGoMod == Probe \/ CheckProjectType \/ ParseManifest \/ ParseGoModule

SpecGoMod == InitGoMod /\ [][NextGoMod]_vars

IsBlank(c) == c \in {" ", "\t", "\r", "\n"}

\* s without its leading and trailing white space.
RECURSIVE Trim(_)
Trim(s) ==
  IF s = <<>> THEN s
  ELSE IF IsBlank(s[1]) THEN Trim(Tail(s))
  ELSE IF IsBlank(s[Len(s)]) THEN Trim(SubSeq(s, 1, Len(s) - 1))
  ELSE s

\* The texts after the prefix of the lines of text that begin with it.
AfterPrefix(text, prefix) ==
  LET lines == Split(text, "\n")
  IN {SubSeq(lines[i], Len(prefix) + 1, Len(lines[i])) :
        i \in {j \in 1..Len(lines) : StartsWith(lines[j], prefix)}}

\* text without its lines that begin with neither prefix.
MatchingLines(text) ==
  SelectSeq(Split(text, "\n"),
            LAMBDA l : StartsWith(l, W_modulePrefix) \/ StartsWith(l, W_goPrefix))

\* What C20 says of parseGoMod(text).
ParsedAsClaimed(text) ==
  LET r == parseGoMod(text)
      modules == AfterPrefix(text, W_modulePrefix)
      gos == AfterPrefix(text, W_goPrefix)
  IN /\ DOMAIN r = {"module", "go"}
     /\ r.module \in (IF modules = {} THEN {<<>>} ELSE {Trim(m) : m \in modules})
     /\ r.go \in (IF gos = {} THEN {<<>>} ELSE gos)
     /\ r = Reduce(MatchingLines(text), 1, [module |-> <<>>, go |-> <<>>])

\* C20, as stated: parseGoMod returns a record {module, go} for every text;
\* module is the trimmed text after the prefix of a line beginning with
\* "module ", go the text after the prefix of a line beginning with "go ",
\* lines of neither kind do not count, a field without a line is empty, and
\* the empty text gives {module: "", go: ""}.  (The code does not trim.)
C20_ParseGoModTrimmed ==
  /\ parseGoMod(<<>>) = [module |-> <<>>, go |-> <<>>]
  /\ (Truthy(goMod) /\ Past("parseGoModule")) =>
       /\ ParsedAsClaimed(Val(goMod))
       /\ currentValues.name = Some(parseGoMod(Val(goMod)).module)

\* The files of a candidate list are on disk as they were read.
CandidatesAsProbed(names, files) ==
  /\ \A p \in Range(names) :
       Truthy(disk[p]) <=> \E i \in 1..Len(files) : files[i].path = p
  /\ \A i \in 1..Len(files) : disk[files[i].path] = Some(files[i].content)

\* The working directory is as it was probed.
DiskAsProbed ==
  /\ disk["package.json"] = packageJson
  /\ disk["go.mod"] = goMod
  /\ disk[".git/config"] = gitConfig
  /\ CandidatesAsProbed(readmeFileNames, readmeFiles)
  /\ CandidatesAsProbed(licenseFileNames, licenseFiles)
  /\ CandidatesAsProbed(codeOfConductFileNames, codeOfConductFiles)
  /\ \A p \in {".gitignore", ".eslintrc.js", ".prettierrc.js", "jest.config.js",
               ".np-config.js", ".lintstagedrc.js", ".husky/pre-commit"} :
       disk[p] = Null

\* No write, unlink, command or fetch yet, and the directory as probed.
Pristine == Untouched /\ (pc # "probe" => DiskAsProbed)

\* C21: nothing is written, deleted, executed or fetched before the last
\* question is answered and the first step starts; so a run that ends
\* while resolving, by an error or by a declined confirmation, leaves the
\* working directory as it was probed.
C21_ResolverOwnsNoFiles ==
  /\ pc \in Range(PcOrder) \ {"run"} => (Pristine /\ tasks = <<>>)
  /\ (pc = "run" /\ started = <<>>) => Pristine
  /\ (pc \in {"catch", "done"} /\ ~PlanBuilt) => (Pristine /\ tasks = <<>>)
  /\ (IsSome(err) /\ Val(err) # "StepFailure") => (~PlanBuilt /\ Pristine)
  /\ Declined => (~PlanBuilt /\ Pristine)

\* A run over an unparseable manifest ended, after the probe and before
\* any question.
C21_Witness ==
  /\ pc = "done"
  /\ err = Some("InvalidManifest")
  /\ exitCode = Some(1)
  /\ disk["package.json"] = Some(GarbageText)
  /\ asked = <<>>

\* The position in effects of the write of package.json by the create
\* step, 0 if there is none.
CreatedAt ==
  IF \E i \in 1..Len(effects) : effects[i].kind = "write" /\ effects[i].key = "package.json"
    THEN CHOOSE i \in 1..Len(effects) :
           effects[i].kind = "write" /\ effects[i].key = "package.json"
    ELSE 0

\* The create step was started and completed.
CreateCompleted ==
  \E i \in 1..Len(started) :
    started[i].title = "Create package.json file" /\ ~started[i].failed

\* The manifest is patched through the package manager only while
\* package.json exists; the create step, when planned, is the first step of
\* the Manifest group.  detected: whether a manifest was detected.
ManifestPatchedWhenPresent(detected) ==
  /\ \A i \in 1..Len(effects) :
       effects[i].cmd = "npm pkg set" =>
         \/ detected
         \/ CreateCompleted /\ CreatedAt > 0 /\ CreatedAt < i
  /\ InPlan("package.json") =>
       LET steps == tasks[CHOOSE g \in GroupsTitled("package.json") : TRUE].steps
       IN /\ \A k \in 2..Len(steps) : steps[k].title # "Create package.json file"
          /\ (Len(steps) > 0 /\ steps[1].title = "Create package.json file") <=> ~detected
  /\ (PlanBuilt /\ ~detected /\ InPlan("Pre-commit linting")) => InPlan("package.json")

\* C22, as stated: in a node run every npm pkg set is executed only when
\* package.json exists: a manifest was detected at probe time, or the
\* create step is in the plan, before every such step, and completed; and
\* the create step is in the plan exactly when no manifest was detected.
\* (A manifest that is empty, or whose content is a falsy JSON value, is
\* detected and yet created anew.)
C22_ManifestExistsWhenPatched ==
  (PlanBuilt /\ language = Some("node")) =>
    ManifestPatchedWhenPresent(IsSome(packageJson))

\* Every step of the group with the given title was started and completed.
GroupCompleted(title) ==
  \A g \in GroupsTitled(title) :
    \A k \in 1..Len(tasks[g].steps) :
      \E i \in 1..Len(started) :
        /\ started[i].group = title
        /\ started[i].title = tasks[g].steps[k].title
        /\ ~started[i].failed

\* C23: whenever the Pre-commit linting group is in the plan, the language
\* is node, the Git group and the Manifest group are in the plan before
\* it, and both have completed when its first step starts; and git init is
\* never planned for a directory in which a git configuration was detected.
C23_PreCommitAfterGit ==
  /\ InPlan("Pre-commit linting") =>
       /\ language = Some("node")
       /\ InPlan("Git")
       /\ InPlan("package.json")
       /\ \A g \in GroupsTitled("Pre-commit linting") :
            /\ \A h \in GroupsTitled("Git") : h < g
            /\ \A h \in GroupsTitled("package.json") : h < g
       /\ (\E i \in 1..Len(started) : started[i].group = "Pre-commit linting") =>
            (GroupCompleted("Git") /\ GroupCompleted("package.json"))
  /\ (pc # "probe" /\ gitConfig # Null) =>
       /\ ~InPlan("Git")
       /\ \A g \in 1..Len(tasks) : \A k \in 1..Len(tasks[g].steps) :
            \A n \in 1..Len(tasks[g].steps[k].ops) :
              tasks[g].steps[k].ops[n].cmd # "git init"
       /\ \A i \in 1..Len(effects) : effects[i].cmd # "git init"

\* A run with pre-commit linting completed.
C23_Witness ==
  /\ pc = "done"
  /\ AllCompleted
  /\ InPlan("Pre-commit linting")
  /\ disk[".husky/pre-commit"] # Null
  /\ disk[".lintstagedrc.js"] # Null

\* The task list built from the probe results and the answers of the
\* state, were freshInitialization the given value: the only places that
\* read it after the questions are lines 718 and 819.
PlanOf(fresh) ==
  compact(<<
    When(GitPlanned, GitGroup),
    When(LicensePlanned, LicenseGroup),
    When(CodeOfConductPlanned, CodeOfConductGroup),
    When(ManifestPlanned, ManifestGroup),
    When(language = Some("node") /\ fresh, ToolingGroup),
    When(PreCommitPlanned, PreCommitGroup),
    When(language = Some("go") /\ fresh /\ Truthy(newValues.gitRemote), GoModuleGroup),
    When(ReadmePlanned, ReadmeGroup) >>)

\* C24, as stated: for a directory with a manifest or a module descriptor
\* and the same answers, the run with the flag builds the plan of the run
\* without it in which the operator confirms.  The confirming run differs
\* from the run with the flag in freshInitialization only, which it sets to
\* false: its plan is PlanOf(FALSE), as the first conjunct checks of every
\* confirming run; the second conjunct says the same of the runs with the
\* flag.  (With the flag freshInitialization stays true.)
C24_FlagOnlySkipsConfirmation ==
  /\ (PlanBuilt /\ AnswerTo("reinitialize") = Some(TRUE)) =>
       (~freshInitialization /\ tasks = PlanOf(FALSE))
  /\ (PlanBuilt /\ options.reinitialize /\ (TextTruthy(packageJson) \/ Truthy(goMod))) =>
       tasks = PlanOf(FALSE)

\* Of the files of a candidate list only the canonical one is on disk.
OnlyCanonical(names, canonical) ==
  /\ disk[canonical] # Null
  /\ \A p \in Range(names) \ {canonical} : disk[p] = Null

\* C25, as stated: after a run that succeeded and in which every unlink
\* succeeded, README.md is the only readme candidate left when addReadme
\* is true, LICENSE the only license candidate when the License group ran,
\* CODE_OF_CONDUCT.md the only code-of-conduct candidate when
\* addCodeOfConduct is true, whatever candidates existed, those of empty
\* content included.  (maybeReadFiles drops the files of empty content, so
\* that they are never unlinked.)
C25_OnlyCanonicalLeft ==
  (pc = "done" /\ AllCompleted /\ ~UnlinkFailed) =>
    /\ Yes(newValues.addReadme) => OnlyCanonical(readmeFileNames, "README.md")
    /\ InPlan("License") => OnlyCanonical(licenseFileNames, "LICENSE")
    /\ Yes(newValues.addCodeOfConduct) =>
         OnlyCanonical(codeOfConductFileNames, "CODE_OF_CONDUCT.md")

====
